---------------------------- MODULE Spec2Model ----------------------------
(***************************************************************************)
(* Model of the self-healing job pipeline of backendManim:                 *)
(*   - the submit handler  generate_animation      (app/main.py)           *)
(*   - the Celery task     process_animation_job   (app/tasks.py)          *)
(*   - the code generator adapter                  (services/ai_service)   *)
(*   - the renderer adapter                        (services/render_service)*)
(*   - the job / user tables                       (services/database_service)*)
(* Texts (code, AI responses) are sequences of one-character strings.      *)
(***************************************************************************)
EXTENDS Integers, Sequences, FiniteSets, TLC

(***************************************************************************)
(* Bounds of the exploration                                               *)
(***************************************************************************)
NumRequests == 2        \* concurrent submit requests of SpecAdmit
MaxDeliveries == 2      \* times the queue may deliver the same task
InitCredits == 1
MaxDeletes == 2
MaxLines == 2
MaxJobs == 2
MaxCreates == 3
MaxLimit == 2        \* credit balance of the owner at start

(***************************************************************************)
(* Program constants                                                       *)
(***************************************************************************)
MAX_RETRY_ATTEMPTS == 3
MAX_CONCURRENT_JOBS == 2

Reqs == 1..NumRequests
\* request slots; the task id created by request r is r
Slots == 1..(IF NumRequests > MAX_CONCURRENT_JOBS THEN NumRequests
                                                  ELSE MAX_CONCURRENT_JOBS + 1)
Jobs == Slots
Users == {"u1"}

(***************************************************************************)
(* Optional values: None is the empty tuple, Some(x) the 1-tuple.          *)
(***************************************************************************)
None == <<>>
Some(x) == <<x>>

(***************************************************************************)
(* Text helpers (str.lower, `in`, str.replace, str.strip, startswith)      *)
(***************************************************************************)
LowerMap ==
    ("A" :> "a") @@ ("B" :> "b") @@ ("C" :> "c") @@ ("D" :> "d") @@
    ("E" :> "e") @@ ("F" :> "f") @@ ("G" :> "g") @@ ("H" :> "h") @@
    ("I" :> "i") @@ ("J" :> "j") @@ ("K" :> "k") @@ ("L" :> "l") @@
    ("M" :> "m") @@ ("N" :> "n") @@ ("O" :> "o") @@ ("P" :> "p") @@
    ("Q" :> "q") @@ ("R" :> "r") @@ ("S" :> "s") @@ ("T" :> "t") @@
    ("U" :> "u") @@ ("V" :> "v") @@ ("W" :> "w") @@ ("X" :> "x") @@
    ("Y" :> "y") @@ ("Z" :> "z")

LowerChar(c) == IF c \in DOMAIN LowerMap THEN LowerMap[c] ELSE c

Lower(s) == [i \in 1..Len(s) |-> LowerChar(s[i])]

StartsWith(s, p) == Len(s) >= Len(p) /\ SubSeq(s, 1, Len(p)) = p

Contains(s, p) ==
    \E i \in 0..(Len(s) - Len(p)) : SubSeq(s, i + 1, i + Len(p)) = p

RECURSIVE Remove(_, _)
Remove(s, p) ==
    IF Len(s) < Len(p) \/ Len(p) = 0 THEN s
    ELSE IF SubSeq(s, 1, Len(p)) = p
         THEN Remove(SubSeq(s, Len(p) + 1, Len(s)), p)
         ELSE <<s[1]>> \o Remove(Tail(s), p)

Whitespace == {" ", "\n", "\t", "\r"}

RECURSIVE LStrip(_)
LStrip(s) == IF s # <<>> /\ s[1] \in Whitespace THEN LStrip(Tail(s)) ELSE s

RECURSIVE RStrip(_)
RStrip(s) ==
    IF s # <<>> /\ s[Len(s)] \in Whitespace
    THEN RStrip(SubSeq(s, 1, Len(s) - 1)) ELSE s

Strip(s) == RStrip(LStrip(s))

(***************************************************************************)
(* config.py: deny list                                                    *)
(***************************************************************************)
dangerous_patterns ==
    << <<"i", "m", "p", "o", "r", "t", " ", "o", "s">>,
       <<"i", "m", "p", "o", "r", "t", " ", "s", "y", "s">>,
       <<"i", "m", "p", "o", "r", "t", " ", "s", "u", "b", "p", "r", "o", "c", "e", "s", "s">>,
       <<"e", "v", "a", "l", "(">>,
       <<"e", "x", "e", "c", "(">>,
       <<"c", "o", "m", "p", "i", "l", "e", "(">>,
       <<"_", "_", "i", "m", "p", "o", "r", "t", "_", "_">>,
       <<"o", "p", "e", "n", "(">>,
       <<"f", "i", "l", "e", "(">>,
       <<"i", "n", "p", "u", "t", "(">>,
       <<"r", "a", "w", "_", "i", "n", "p", "u", "t", "(">>,
       <<"e", "x", "e", "c", "f", "i", "l", "e", "(">> >>

(***************************************************************************)
(* ai_service.sanitize_code: the indices of the deny-listed patterns found *)
(* in the code; the code passes (is returned) iff there is none, otherwise *)
(* SecurityViolationError is raised.                                       *)
(***************************************************************************)
sanitize_code_nocase(code) ==
    { k \in 1..Len(dangerous_patterns) : Contains(code, dangerous_patterns[k]) }

sanitize_code(code) ==
    { k \in 1..Len(dangerous_patterns) :
        Contains(Lower(code), Lower(dangerous_patterns[k])) }

(***************************************************************************)
(* ai_service._clean_code_response                                         *)
(***************************************************************************)
\* BQ stands for the backquote character
BQ == "bq"
FencePython == <<BQ, BQ, BQ, "p", "y", "t", "h", "o", "n">>
Fence == <<BQ, BQ, BQ>>
PrefixFrom == <<"f", "r", "o", "m", " ">>
PrefixImport == <<"i", "m", "p", "o", "r", "t", " ">>
PrefixClass == <<"c", "l", "a", "s", "s", " ">>
PrefixDef == <<"d", "e", "f", " ">>

\* the text from position i to the end
From(s, i) == SubSeq(s, i, Len(s))

\* positions at which a line of s starts (str.split at newlines)
LineStarts(s) == { i \in 1..Len(s) : i = 1 \/ s[i - 1] = "\n" }

IsCodeStart_nodef(s, i) ==
    \/ StartsWith(From(s, i), PrefixFrom)
    \/ StartsWith(From(s, i), PrefixImport)
    \/ StartsWith(From(s, i), PrefixClass)

IsCodeStart(s, i) ==
    \/ StartsWith(From(s, i), PrefixFrom)
    \/ StartsWith(From(s, i), PrefixImport)
    \/ StartsWith(From(s, i), PrefixClass)
    \/ StartsWith(From(s, i), PrefixDef)

_clean_code_response(response_text) ==
    IF response_text = <<>> THEN <<>>
    ELSE LET clean_code == Strip(Remove(Remove(response_text, FencePython), Fence))
             starts == { i \in LineStarts(clean_code) : IsCodeStart(clean_code, i) }
         IN  IF starts = {} THEN clean_code
             ELSE From(clean_code, CHOOSE i \in starts : \A k \in starts : i <= k)


(***************************************************************************)
(* Exceptions: [type, msg, stderr, code].  msg is a sequence of the pieces *)
(* of the formatted message; stderr and code are the extra attributes of   *)
(* render_service.RenderError (empty text unless given).                   *)
(***************************************************************************)
Exc(type, msg) == [type |-> type, msg |-> msg, stderr |-> <<>>, code |-> <<>>]

RenderError(msg, stderr, code) ==
    [type |-> "RenderError", msg |-> msg, stderr |-> stderr, code |-> code]

NoExc == Exc("None", <<>>)

(***************************************************************************)
(* The opaque AI call: it fails with a provider error, or returns a text.  *)
(***************************************************************************)
RespPlain == <<"d", "e", "f", " ", "f">>
RespNarrative == <<"h", "i", "\n", "d", "e", "f", " ", "g">>
RespFencedEval ==
    <<BQ, BQ, BQ, "p", "y", "t", "h", "o", "n", "\n",
      "x", "=", "E", "V", "A", "L", "(", "1", ")", "\n", BQ, BQ, BQ>>
Responses == {<<>>, RespPlain, RespNarrative, RespFencedEval}

AiOutcomes ==
    {[error |-> TRUE, text |-> <<>>]} \cup
    {[error |-> FALSE, text |-> t] : t \in Responses}

\* the AI calls that return usable, clean code
AiGood == {[error |-> FALSE, text |-> RespPlain]}

(***************************************************************************)
(* ai_service._get_model: the credential the AI call is made with          *)
(***************************************************************************)
PlatformKey == "GEMINI_API_KEY"
_get_model(api_key) == IF api_key # None THEN api_key[1] ELSE PlatformKey

(***************************************************************************)
(* ai_service.generate_code / fix_code on one outcome of the AI call: the  *)
(* result is [type |-> "ok", code |-> text] or the exception raised.       *)
(***************************************************************************)
AiCodeResult(o, failMsg, emptyMsg) ==
    IF o.error
      THEN Exc("CodeGenerationError", <<failMsg, "provider error">>)
    ELSE IF o.text = <<>>
      THEN Exc("CodeGenerationError", <<failMsg, emptyMsg>>)
    ELSE LET clean_code == _clean_code_response(o.text) IN
         IF sanitize_code(clean_code) # {}
           THEN Exc("SecurityViolationError",
                    <<"Generated code contains dangerous pattern: ",
                      ToString(CHOOSE k \in sanitize_code(clean_code) :
                                 \A m \in sanitize_code(clean_code) : k <= m)>>)
           ELSE [type |-> "ok", code |-> clean_code]

generate_code(o) ==
    AiCodeResult(o, "Failed to generate code: ", "AI returned empty response")

fix_code(o) ==
    AiCodeResult(o, "Failed to fix code: ",
                 "AI returned empty response when fixing code")

(***************************************************************************)
(* render_service.extract_error_details                                    *)
(***************************************************************************)
\* ESC stands for the escape character, PTR for the traceback pointer and
\* BAR, BoxDR, BoxDL, BoxUL, BoxUR, BoxH for the box-drawing characters of
\* the patterns at lines 37, 61 and 67
ESC == "esc"
PTR == "ptr"
BAR == "bar"
BoxChars == {BAR, "BoxDR", "BoxDL", "BoxUL", "BoxUR", "BoxH"}

Letters ==
   {"a", "b", "c", "d", "e", "f", "g", "h", "i", "j", "k", "l", "m", "n",
    "o", "p", "q", "r", "s", "t", "u", "v", "w", "x", "y", "z", "A", "B",
    "C", "D", "E", "F", "G", "H", "I", "J", "K", "L", "M", "N", "O", "P",
    "Q", "R", "S", "T", "U", "V", "W", "X", "Y", "Z"}
Digits == {"0", "1", "2", "3", "4", "5", "6", "7", "8", "9"}
IdentStart == Letters \cup {"_"}
IdentChars == IdentStart \cup Digits \cup {"."}
AnsiParams == Digits \cup {";"}
AnsiFinal == {"m", "G", "K", "H"}
ErrorWord == <<"E", "r", "r", "o", "r">>
ExceptionColon == <<"E", "x", "c", "e", "p", "t", "i", "o", "n", ":">>

UnknownError ==
    <<"U", "n", "k", "n", "o", "w", "n", " ", "e", "r", "r", "o", "r",
    " ", "o", "c", "c", "u", "r", "r", "e", "d", " ", "d", "u", "r", "i",
    "n", "g", " ", "r", "e", "n", "d", "e", "r", "i", "n", "g">>
RuntimeErrorPrefix ==
    <<"R", "u", "n", "t", "i", "m", "e", " ", "E", "r", "r", "o", "r",
    ":", " ">>
ErrorNearLine == <<"E", "r", "r", "o", "r", " ", "n", "e", "a", "r", " ", "l", "i", "n", "e", " ">>

\* the first position >= i of s whose character is not in S (Len(s)+1 if none)
RECURSIVE SkipWhile(_, _, _)
SkipWhile(s, i, S) ==
    IF i <= Len(s) /\ s[i] \in S THEN SkipWhile(s, i + 1, S) ELSE i

\* the first position >= i of s whose character is in S (Len(s)+1 if none)
RECURSIVE SkipTo(_, _, _)
SkipTo(s, i, S) ==
    IF i <= Len(s) /\ s[i] \notin S THEN SkipTo(s, i + 1, S) ELSE i

\* line 37: the last position of the escape sequence starting at i, 0 if none
AnsiEnd(s, i) ==
    IF i + 1 <= Len(s) /\ s[i] = ESC /\ s[i + 1] = "["
    THEN LET k == SkipWhile(s, i + 2, AnsiParams)
         IN IF k <= Len(s) /\ s[k] \in AnsiFinal THEN k ELSE 0
    ELSE 0

\* line 38: ansi_escape.sub('', stderr), from position i on
RECURSIVE StripAnsi(_, _)
StripAnsi(s, i) ==
    IF i > Len(s) THEN <<>>
    ELSE IF AnsiEnd(s, i) > 0 THEN StripAnsi(s, AnsiEnd(s, i) + 1)
    ELSE <<s[i]>> \o StripAnsi(s, i + 1)

\* where `.+` starts after a greedy whitespace run of at least min characters
\* beginning at p: the run gives characters back until a character other than
\* a newline follows it; 0 if there is no such position
MessageStart(s, p, min) ==
    LET q == SkipWhile(s, p, Whitespace)
        starts == { k \in (p + min)..q : k <= Len(s) /\ s[k] # "\n" }
    IN IF starts = {} THEN 0
       ELSE CHOOSE k \in starts : \A m \in starts : m <= k

\* the last position of the line that holds position i
LineEnd(s, i) == SkipTo(s, i, {"\n"}) - 1

\* [a-zA-Z_][a-zA-Z0-9_.]*Error: matched at i: the position of the colon, or 0
ErrorKindEnd(s, i) ==
    IF i <= Len(s) /\ s[i] \in IdentStart
    THEN LET c == SkipWhile(s, i + 1, IdentChars)
         IN IF /\ c <= Len(s)
               /\ s[c] = ":"
               /\ c - 5 >= i + 1
               /\ SubSeq(s, c - 5, c - 1) = ErrorWord
            THEN c ELSE 0
    ELSE 0

\* line 42, (?:...Error|Exception): matched at i: the position of the colon
KindEnd(s, i) ==
    IF ErrorKindEnd(s, i) > 0 THEN ErrorKindEnd(s, i)
    ELSE IF StartsWith(From(s, i), ExceptionColon)
         THEN i + Len(ExceptionColon) - 1
    ELSE 0

\* line 42: the last position of a match of exception_pattern at i, or 0
ExceptionMatchEnd(s, i) ==
    IF KindEnd(s, i) = 0 THEN 0
    ELSE LET st == MessageStart(s, KindEnd(s, i) + 1, 1)
         IN IF st = 0 THEN 0 ELSE LineEnd(s, st)

\* lines 43-46: re.findall scans from the left for non-overlapping matches;
\* the last match found from i on, or `last` if there is none
RECURSIVE LastException(_, _, _)
LastException(s, i, last) ==
    IF i > Len(s) THEN last
    ELSE IF ExceptionMatchEnd(s, i) > 0
         THEN LastException(s, ExceptionMatchEnd(s, i) + 1,
                            SubSeq(s, i, ExceptionMatchEnd(s, i)))
    ELSE LastException(s, i + 1, last)

\* str.split at newlines
RECURSIVE SplitLines(_)
SplitLines(s) ==
    LET e == SkipTo(s, 1, {"\n"})
    IN IF e > Len(s) THEN <<s>>
       ELSE <<SubSeq(s, 1, e - 1)>> \o SplitLines(From(s, e + 1))

NonEmpty(line) == line # <<>>

\* line 50
CleanLines(s) ==
    LET lines == SplitLines(s)
    IN SelectSeq([i \in 1..Len(lines) |-> Strip(lines[i])], NonEmpty)

IsErrorLine_never(line) == FALSE

\* lines 54-57
IsErrorLine(line) ==
    ErrorKindEnd(line, 1) > 0 \/ Contains(line, ExceptionColon)

\* lines 61-62: the match of line_pattern whose pointer is at i, as the
\* positions <<first digit, after last digit, start of group 2>>, or <<>>
PointerMatch(s, i) ==
    IF i <= Len(s) /\ s[i] = PTR
    THEN LET d1 == SkipWhile(s, i + 1, Whitespace)
             d2 == SkipWhile(s, d1, Digits)
             b1 == SkipWhile(s, d2, Whitespace)
             b2 == SkipTo(s, b1 + 1, {BAR, "\n"})
         IN IF /\ d2 > d1
               /\ b1 <= Len(s) /\ s[b1] = BAR
               /\ b2 <= Len(s) /\ s[b2] = BAR
               /\ MessageStart(s, b2 + 1, 0) > 0
            THEN <<d1, d2, MessageStart(s, b2 + 1, 0)>>
            ELSE <<>>
    ELSE <<>>

\* line 67
RemoveBox(s) == SelectSeq(s, LAMBDA c : c \notin BoxChars)

extract_error_details(stderr) ==
    IF stderr = <<>> THEN UnknownError
    ELSE
    LET clean_stderr == StripAnsi(stderr, 1)
        exception == LastException(clean_stderr, 1, <<>>)
        clean_lines == CleanLines(clean_stderr)
        n == Len(clean_lines)
        hits == { k \in 1..n : k > n - 5 /\ IsErrorLine(clean_lines[k]) }
        ptrs == { i \in 1..Len(clean_stderr) :
                    PointerMatch(clean_stderr, i) # <<>> }
    IN IF exception # <<>> THEN Strip(exception)
       ELSE IF hits # {}
         THEN clean_lines[CHOOSE k \in hits : \A m \in hits : m <= k]
       ELSE IF ptrs # {}
         THEN LET m == PointerMatch(clean_stderr,
                            CHOOSE i \in ptrs : \A k \in ptrs : i <= k)
                  line_num == SubSeq(clean_stderr, m[1], m[2] - 1)
                  code_line == SubSeq(clean_stderr, m[3],
                                      LineEnd(clean_stderr, m[3]))
              IN ErrorNearLine \o line_num \o <<":", " ">>
                   \o Strip(RemoveBox(Strip(code_line)))
       ELSE IF n > 0 THEN RuntimeErrorPrefix \o clean_lines[n]
       ELSE UnknownError

(***************************************************************************)
(* Job statuses are strings; a formatted status keeps its format and its   *)
(* arguments, so that two statuses are equal iff the strings are.          *)
(***************************************************************************)
Status(fmt, args) == [fmt |-> fmt, args |-> args]
Plain(s) == Status(s, <<>>)

PENDING == Plain("PENDING")
completed == Plain("completed")
failed == Plain("failed")

RenderingStatus(attempt) ==
    IF attempt = 1 THEN Plain("rendering")
    ELSE Status("rendering (retry {}/{})", <<attempt, MAX_RETRY_ATTEMPTS>>)

FixingStatus(attempt) ==
    Status("fixing_code (attempt {}/{})", <<attempt + 1, MAX_RETRY_ATTEMPTS>>)

Terminal == {completed, failed}


(***************************************************************************)
(* State                                                                   *)
(***************************************************************************)
VARIABLES
    jobs,         \* table Job: partial function task id -> record
    users,        \* table User: user id -> [credits, generationCount]
    file,         \* generated/animation.py: None or Some(text)
    videoFile,    \* newest mp4 in the output directory: None or Some(..)
    s3,           \* artifact store: [objects |-> set of keys, next |-> Nat]
    storageMode,  \* settings.STORAGE_MODE
    task,         \* per task id: the worker's position and locals
    req,          \* per submit request: the handler's position and locals
    hist,         \* per task id: what has happened (observation only)
    probe,        \* the last direct call of a service function and its result
    job_store     \* job_store.JobStore: the in-memory store

vars ==
    <<jobs, users, file, videoFile, s3, storageMode, task, req, hist, probe,
      job_store>>

\* JobStore.__init__ with max_jobs = 0, before any call; created counts the
\* create_job calls, listed is the last list_jobs call on the present content
NoStore == [_jobs |-> <<>>, _max_jobs |-> 0, created |-> 0, listed |-> None]

\* no direct call yet
NoProbe == [kind |-> "none", args |-> <<>>, result |-> <<>>, prev |-> None]

JobExists(j) == j \in DOMAIN jobs

(***************************************************************************)
(* database_service: the writes to the Job and User tables.  Each update   *)
(* requires the record to exist (the ORM raises otherwise).                *)
(***************************************************************************)
NewJob(job_id, user_id) ==
    [status |-> PENDING, userId |-> user_id, videoUrl |-> None,
     s3Key |-> None, executionLog |-> None, generatedCode |-> None,
     errorMessage |-> None]

create_job(job_id, user_id) == jobs @@ (job_id :> NewJob(job_id, user_id))

update_job_status_lost(job_id, status) == jobs

update_job_status(job_id, status) == [jobs EXCEPT ![job_id].status = status]

update_job_result_nocode(job_id, video_url, execution_log, generated_code, s3_key) ==
    [jobs EXCEPT ![job_id].status = completed,
                 ![job_id].videoUrl = Some(video_url),
                 ![job_id].s3Key = s3_key,
                 ![job_id].executionLog = Some(execution_log)]

update_job_result(job_id, video_url, execution_log, generated_code, s3_key) ==
    [jobs EXCEPT ![job_id].status = completed,
                 ![job_id].videoUrl = Some(video_url),
                 ![job_id].s3Key = s3_key,
                 ![job_id].executionLog = Some(execution_log),
                 ![job_id].generatedCode = generated_code]

update_job_error_appending(job_id, error_message) ==
    [jobs EXCEPT ![job_id].status = failed,
                 ![job_id].errorMessage =
                     Some((IF @ = None THEN <<>> ELSE @[1]) \o error_message)]

update_job_error_nostatus(job_id, error_message) ==
    [jobs EXCEPT ![job_id].errorMessage = Some(error_message)]

update_job_error(job_id, error_message) ==
    [jobs EXCEPT ![job_id].status = failed,
                 ![job_id].errorMessage = Some(error_message)]

active_statuses ==
    {Plain("pending"), Plain("generating_code"), Plain("rendering"),
     Plain("fixing_code")}

count_active_jobs(user_id) ==
    Cardinality({ j \in DOMAIN jobs :
                    jobs[j].userId = user_id /\ jobs[j].status \in active_statuses })

increment_usage_charging(user_id) ==
    [users EXCEPT ![user_id].credits = @ - 1,
                  ![user_id].generationCount = @ + 1]

increment_usage(user_id) ==
    [users EXCEPT ![user_id].generationCount = @ + 1]

deduct_credit(user_id) ==
    [users EXCEPT ![user_id].credits = @ - 1,
                  ![user_id].generationCount = @ + 1]

(***************************************************************************)
(* Worker locals of one run of process_animation_job                       *)
(***************************************************************************)
NoTask ==
    [pc |-> "none", api_key |-> None, deliveries |-> 0, attempt |-> 0,
     code |-> None, last_error |-> NoExc, err |-> NoExc,
     video_url |-> None, result |-> "PENDING"]

NoHist ==
    [renders |-> 0, fixes |-> 0, timedOut |-> FALSE, afterTimeout |-> 0,
     rejected |-> FALSE, creds |-> {},
     resultApplied |-> FALSE, errorApplied |-> FALSE,
     genFailed |-> FALSE, firstWriteMissed |-> FALSE,
     lastRender |-> None, fixCall |-> None,
     writeFailed |-> FALSE, deletes |-> 0, lastDelete |-> None,
     lastUpdate |-> None, repeated |-> FALSE, storeDeletes |-> {}]

NoReq ==
    [pc |-> "idle", user |-> "", key |-> None, credits |-> 0,
     user_api_key |-> None, deducts |-> 0, usage |-> 0,
     capReached |-> FALSE]

\* the task leaves process_job_async by raising e: the finally block is next
Raise(j, e) == [task EXCEPT ![j].pc = "finally", ![j].err = e]

RecordNotFound == Exc("Exception", <<"RecordNotFoundError">>)

(***************************************************************************)
(* tasks.process_job_async, lines 32-41: connect, status generating_code   *)
(***************************************************************************)
BeginRun(j) ==
    /\ task[j].pc = "queued"
    /\ hist' = [hist EXCEPT ![j].renders = 0, ![j].fixes = 0,
                            ![j].timedOut = FALSE, ![j].afterTimeout = 0,
                            ![j].rejected = FALSE, ![j].genFailed = FALSE,
                            ![j].firstWriteMissed = @ \/ ~JobExists(j),
                            ![j].writeFailed = ~JobExists(j),
                            ![j].lastRender = None, ![j].fixCall = None]
    /\ IF JobExists(j)
       THEN /\ jobs' = update_job_status(j, Plain("generating_code"))
            /\ task' = [task EXCEPT ![j].pc = "generate", ![j].code = None,
                                    ![j].last_error = NoExc, ![j].err = NoExc,
                                    ![j].attempt = 0, ![j].video_url = None,
                                    ![j].result = "STARTED"]
       ELSE /\ jobs' = jobs
            /\ task' = [task EXCEPT ![j].pc = "finally", ![j].code = None,
                                    ![j].last_error = NoExc,
                                    ![j].err = RecordNotFound,
                                    ![j].attempt = 0, ![j].video_url = None,
                                    ![j].result = "STARTED"]
    /\ UNCHANGED <<users, file, videoFile, s3, storageMode, job_store, probe, req>>

(***************************************************************************)
(* tasks.process_job_async, lines 44-50: generate_code, save_code, and the *)
(* entry of the retry loop with attempt = 1.  saveOk: the write succeeds   *)
(* (save_code turns an IOError into CodeGenerationError).                  *)
(***************************************************************************)
SaveFailed == Exc("CodeGenerationError", <<"Failed to save code: ", "IOError">>)

GenerateCode(j, o, saveOk) ==
    /\ task[j].pc = "generate"
    /\ LET r == generate_code(o) IN
       /\ hist' = [hist EXCEPT
              ![j].creds = @ \cup {_get_model(task[j].api_key)},
              ![j].rejected = @ \/ r.type = "SecurityViolationError",
              ![j].genFailed = r.type # "ok"]
       /\ IF r.type # "ok"
          THEN /\ task' = Raise(j, r)
               /\ file' = file
          ELSE IF saveOk
          THEN /\ task' = [task EXCEPT ![j].code = Some(r.code),
                                       ![j].attempt = 1,
                                       ![j].pc = "set_rendering"]
               /\ file' = Some(r.code)
          ELSE /\ task' = [Raise(j, SaveFailed) EXCEPT ![j].code = Some(r.code)]
               /\ file' = file
    /\ UNCHANGED <<jobs, users, videoFile, s3, storageMode, job_store, probe, req>>

(***************************************************************************)
(* tasks.process_job_async, lines 52-56: persist the rendering status      *)
(***************************************************************************)
SetRenderingIgnoringFailure(j) ==
    /\ task[j].pc = "set_rendering"
    /\ IF JobExists(j)
       THEN /\ jobs' = update_job_status(j, RenderingStatus(task[j].attempt))
            /\ task' = [task EXCEPT ![j].pc = "render"]
       ELSE /\ jobs' = jobs
            /\ task' = [task EXCEPT ![j].pc = "render"]
    /\ hist' = [hist EXCEPT ![j].writeFailed = @ \/ ~JobExists(j)]
    /\ UNCHANGED <<users, file, videoFile, s3, storageMode, job_store, probe, req>>

SetRendering(j) ==
    /\ task[j].pc = "set_rendering"
    /\ IF JobExists(j)
       THEN /\ jobs' = update_job_status(j, RenderingStatus(task[j].attempt))
            /\ task' = [task EXCEPT ![j].pc = "render"]
       ELSE /\ jobs' = jobs
            /\ task' = Raise(j, RecordNotFound)
    /\ hist' = [hist EXCEPT ![j].writeFailed = @ \/ ~JobExists(j)]
    /\ UNCHANGED <<users, file, videoFile, s3, storageMode, job_store, probe, req>>


(***************************************************************************)
(* render_service.execute_manim on one outcome of the subprocess:          *)
(*   ok         exit 0, the output file is written                         *)
(*   ok_nofile  exit 0, no output file is written                          *)
(*   fail       non-zero exit with the given stderr                        *)
(*   timeout    subprocess.TimeoutExpired                                  *)
(* f is the working file.  The RenderError raised inside the try block     *)
(* (script missing, non-zero exit) is caught by the function's own         *)
(* `except Exception` and replaced by a RenderError built from its message.*)
(***************************************************************************)
Stdout == <<"stdout">>
StderrName ==
    <<"N", "a", "m", "e", "E", "r", "r", "o", "r", ":", " ", "x">>

RenderOutcomes ==
    {[kind |-> "ok", stderr |-> <<>>], [kind |-> "ok_nofile", stderr |-> <<>>],
     [kind |-> "timeout", stderr |-> <<>>], [kind |-> "fail", stderr |-> StderrName]}

RenderOkOrFail ==
    {[kind |-> "ok", stderr |-> <<>>], [kind |-> "fail", stderr |-> StderrName]}

Rewrap(prefix, e) == RenderError(<<prefix>> \o e.msg, <<>>, <<>>)

execute_manim(f, o) ==
    IF f = None
      THEN Rewrap("Rendering failed: ",
                  RenderError(<<"Animation script not found">>, <<>>, <<>>))
    ELSE IF o.kind = "timeout"
      THEN RenderError(<<"Rendering timed out after 5 minutes">>, <<>>, <<>>)
    ELSE IF o.kind = "fail"
      THEN Rewrap("Rendering failed: ",
                  RenderError(<<"Manim rendering failed with code ", "1">>,
                              o.stderr, f[1]))
    ELSE [type |-> "ok", stdout |-> Stdout, stderr |-> o.stderr]

(***************************************************************************)
(* tasks.process_job_async, line 59: the render call of the attempt        *)
(***************************************************************************)
ExecuteManim(j, o) ==
    /\ task[j].pc = "render"
    /\ LET r == execute_manim(file, o) IN
       /\ hist' = [hist EXCEPT
              ![j].renders = @ + 1,
              ![j].afterTimeout = IF hist[j].timedOut THEN @ + 1 ELSE @,
              ![j].timedOut = @ \/ (file # None /\ o.kind = "timeout"),
              ![j].lastRender = Some(
                  [kind |-> IF file = None THEN "noscript" ELSE o.kind,
                   stderr |-> IF file = None THEN <<>> ELSE o.stderr,
                   code |-> IF file = None THEN <<>> ELSE file[1],
                   attempt |-> task[j].attempt])]
       /\ IF r.type = "ok"
          THEN /\ task' = [task EXCEPT ![j].pc = "get_video"]
               /\ videoFile' = IF o.kind = "ok"
                               THEN Some([job |-> j, code |-> file[1]])
                               ELSE videoFile
          ELSE /\ task' = [task EXCEPT ![j].pc = "render_failed", ![j].err = r]
               /\ videoFile' = videoFile
    /\ UNCHANGED <<jobs, users, file, s3, storageMode, job_store, probe, req>>

(***************************************************************************)
(* render_service.get_video_url (tasks.py line 62): the newest output file,*)
(* uploaded when STORAGE_MODE is s3 (the upload removes the local file).   *)
(* Every failure leaves as RenderError("Failed to get video URL: ...").    *)
(***************************************************************************)
GetVideoUrl(j, uploadOk) ==
    /\ task[j].pc = "get_video"
    /\ IF videoFile = None
       THEN /\ task' = [task EXCEPT ![j].pc = "render_failed",
                  ![j].err = Rewrap("Failed to get video URL: ",
                       RenderError(<<"No video file generated">>, <<>>, <<>>))]
            /\ UNCHANGED <<videoFile, s3>>
       ELSE IF storageMode = "s3"
       THEN IF uploadOk
            THEN /\ s3' = [objects |-> s3.objects \cup {s3.next},
                           next |-> s3.next + 1]
                 /\ videoFile' = None
                 /\ task' = [task EXCEPT ![j].pc = "update_result",
                        ![j].video_url = Some([store |-> "s3", key |-> s3.next,
                                               video |-> videoFile[1]])]
            ELSE /\ task' = [task EXCEPT ![j].pc = "render_failed",
                        ![j].err = Rewrap("Failed to get video URL: ",
                             Exc("Exception", <<"S3 upload failed: ", "ClientError">>))]
                 /\ UNCHANGED <<videoFile, s3>>
       ELSE /\ task' = [task EXCEPT ![j].pc = "update_result",
                   ![j].video_url = Some([store |-> "local", key |-> 0,
                                          video |-> videoFile[1]])]
            /\ UNCHANGED <<videoFile, s3>>
    /\ UNCHANGED <<jobs, users, file, storageMode, job_store, probe, req, hist>>

(***************************************************************************)
(* tasks.process_job_async, lines 63-85: log, storage key, result write    *)
(***************************************************************************)
ExecutionLogAlways(attempt) ==
    [after |-> Some(attempt), stdout |-> Stdout, stderr |-> <<>>]

ExecutionLog(attempt) ==
    [after |-> IF attempt > 1 THEN Some(attempt) ELSE None,
     stdout |-> Stdout, stderr |-> <<>>]

_extract_s3_key(video_url) ==
    IF storageMode # "s3" THEN None ELSE Some(video_url.key)

UpdateJobResult(j) ==
    /\ task[j].pc = "update_result"
    /\ IF JobExists(j)
       THEN /\ jobs' = update_job_result(j, task[j].video_url[1],
                           ExecutionLog(task[j].attempt), task[j].code,
                           _extract_s3_key(task[j].video_url[1]))
            /\ task' = [task EXCEPT ![j].pc = "finally", ![j].err = NoExc]
            /\ hist' = [hist EXCEPT ![j].resultApplied = TRUE]
       ELSE /\ jobs' = jobs
            /\ task' = Raise(j, RecordNotFound)
            /\ hist' = [hist EXCEPT ![j].writeFailed = TRUE]
    /\ UNCHANGED <<users, file, videoFile, s3, storageMode, job_store, probe, req>>


(***************************************************************************)
(* tasks.process_job_async, lines 87-96 and 118-121: a RenderError of the  *)
(* attempt.  With attempts left the fixing status is persisted and the fix *)
(* call is next; otherwise the error is re-raised.                         *)
(***************************************************************************)
HasMoreAttemptsInclusive(attempt) == attempt <= MAX_RETRY_ATTEMPTS

HasMoreAttempts(attempt) == attempt < MAX_RETRY_ATTEMPTS

HandleRenderErrorNoFix(j) ==
    /\ task[j].pc = "render_failed"
    /\ IF HasMoreAttempts(task[j].attempt)
       THEN IF JobExists(j)
            THEN /\ jobs' = update_job_status(j, FixingStatus(task[j].attempt))
                 /\ task' = [task EXCEPT ![j].pc = "set_rendering",
                                         ![j].attempt = @ + 1,
                                         ![j].last_error = task[j].err]
            ELSE /\ jobs' = jobs
                 /\ task' = [Raise(j, RecordNotFound) EXCEPT
                                ![j].last_error = task[j].err]
       ELSE /\ jobs' = jobs
            /\ task' = [Raise(j, task[j].err) EXCEPT
                           ![j].last_error = task[j].err]
    /\ hist' = [hist EXCEPT ![j].writeFailed =
                    @ \/ (HasMoreAttempts(task[j].attempt) /\ ~JobExists(j))]
    /\ UNCHANGED <<users, file, videoFile, s3, storageMode, job_store, probe, req>>

HandleRenderError(j) ==
    /\ task[j].pc = "render_failed"
    /\ IF HasMoreAttempts(task[j].attempt)
       THEN IF JobExists(j)
            THEN /\ jobs' = update_job_status(j, FixingStatus(task[j].attempt))
                 /\ task' = [task EXCEPT ![j].pc = "fix",
                                         ![j].last_error = task[j].err]
            ELSE /\ jobs' = jobs
                 /\ task' = [Raise(j, RecordNotFound) EXCEPT
                                ![j].last_error = task[j].err]
       ELSE /\ jobs' = jobs
            /\ task' = [Raise(j, task[j].err) EXCEPT
                           ![j].last_error = task[j].err]
    /\ hist' = [hist EXCEPT ![j].writeFailed =
                    @ \/ (HasMoreAttempts(task[j].attempt) /\ ~JobExists(j))]
    /\ UNCHANGED <<users, file, videoFile, s3, storageMode, job_store, probe, req>>

(***************************************************************************)
(* tasks.process_job_async, lines 99-117: fix_code and save_code; a        *)
(* CodeGenerationError or SecurityViolationError of either is logged and   *)
(* the loop continues with the next attempt; when the loop is exhausted    *)
(* the last error is raised (line 124).                                    *)
(***************************************************************************)
FixCodeAborting(j, o, saveOk) ==
    /\ task[j].pc = "fix"
    /\ LET render_error == task[j].last_error
           error_details == extract_error_details(render_error.stderr)
           failed_code == IF render_error.code # <<>>
                          THEN render_error.code ELSE task[j].code[1]
           r == fix_code(o)
       IN
       /\ hist' = [hist EXCEPT
              ![j].fixes = @ + 1,
              ![j].afterTimeout = IF hist[j].timedOut THEN @ + 1 ELSE @,
              ![j].creds = @ \cup {_get_model(task[j].api_key)},
              ![j].rejected = @ \/ r.type = "SecurityViolationError",
              ![j].fixCall = Some(
                  [failed_code |-> failed_code, error_message |-> error_details,
                   attempt |-> task[j].attempt + 1,
                   failed |-> r.type # "ok" \/ ~saveOk])]
       /\ task' = IF r.type # "ok" THEN Raise(j, r)
                  ELSE IF task[j].attempt + 1 <= MAX_RETRY_ATTEMPTS
                  THEN [task EXCEPT
                          ![j].code = IF r.type = "ok" THEN Some(r.code) ELSE @,
                          ![j].attempt = @ + 1,
                          ![j].pc = "set_rendering"]
                  ELSE Raise(j, render_error)
       /\ file' = IF r.type = "ok" /\ saveOk THEN Some(r.code) ELSE file
    /\ UNCHANGED <<jobs, users, videoFile, s3, storageMode, job_store, probe, req>>

FixCode(j, o, saveOk) ==
    /\ task[j].pc = "fix"
    /\ LET render_error == task[j].last_error
           error_details == extract_error_details(render_error.stderr)
           failed_code == IF render_error.code # <<>>
                          THEN render_error.code ELSE task[j].code[1]
           r == fix_code(o)
       IN
       /\ hist' = [hist EXCEPT
              ![j].fixes = @ + 1,
              ![j].afterTimeout = IF hist[j].timedOut THEN @ + 1 ELSE @,
              ![j].creds = @ \cup {_get_model(task[j].api_key)},
              ![j].rejected = @ \/ r.type = "SecurityViolationError",
              ![j].fixCall = Some(
                  [failed_code |-> failed_code, error_message |-> error_details,
                   attempt |-> task[j].attempt + 1,
                   failed |-> r.type # "ok" \/ ~saveOk])]
       /\ task' = IF task[j].attempt + 1 <= MAX_RETRY_ATTEMPTS
                  THEN [task EXCEPT
                          ![j].code = IF r.type = "ok" THEN Some(r.code) ELSE @,
                          ![j].attempt = @ + 1,
                          ![j].pc = "set_rendering"]
                  ELSE Raise(j, render_error)
       /\ file' = IF r.type = "ok" /\ saveOk THEN Some(r.code) ELSE file
    /\ UNCHANGED <<jobs, users, videoFile, s3, storageMode, job_store, probe, req>>

(***************************************************************************)
(* tasks.process_job_async, lines 126-131: the finally block.  A failing   *)
(* disconnect replaces the return value or the exception in flight.        *)
(***************************************************************************)
DisconnectFailed == Exc("Exception", <<"disconnect failed">>)

Disconnect(j, ok) ==
    /\ task[j].pc = "finally"
    /\ task' = IF ~ok
               THEN [task EXCEPT ![j].pc = "handler", ![j].err = DisconnectFailed]
               ELSE IF task[j].err.type = "None"
               THEN [task EXCEPT ![j].pc = "done", ![j].result = "SUCCESS"]
               ELSE [task EXCEPT ![j].pc = "handler"]
    /\ UNCHANGED <<jobs, users, file, videoFile, s3, storageMode, job_store, probe, req, hist>>

(***************************************************************************)
(* tasks.process_animation_job, lines 169-199: the except clauses          *)
(***************************************************************************)
ErrorPrefix(type) ==
    CASE type = "SecurityViolationError" -> "Security violation: "
      [] type = "CodeGenerationError" -> "Code generation failed: "
      [] type = "RenderError" -> "Rendering failed: "
      [] OTHER -> "Unexpected error: "

HandleTaskError(j) ==
    /\ task[j].pc = "handler"
    /\ IF JobExists(j)
       THEN /\ jobs' = update_job_error(j, <<ErrorPrefix(task[j].err.type)>>
                                             \o task[j].err.msg)
            /\ hist' = [hist EXCEPT ![j].errorApplied = TRUE]
       ELSE /\ jobs' = jobs
            /\ hist' = [hist EXCEPT ![j].writeFailed = TRUE]
    /\ task' = [task EXCEPT ![j].pc = "done", ![j].result = "FAILURE"]
    /\ UNCHANGED <<users, file, videoFile, s3, storageMode, job_store, probe, req>>

(***************************************************************************)
(* celery_app: task_acks_late -- a task whose acknowledgement is lost is   *)
(* delivered again (at-least-once delivery)                                *)
(***************************************************************************)
Redeliver(j) ==
    /\ task[j].pc = "done"
    /\ task[j].deliveries < MaxDeliveries
    /\ task' = [task EXCEPT ![j].pc = "queued", ![j].deliveries = @ + 1]
    /\ UNCHANGED <<jobs, users, file, videoFile, s3, storageMode, job_store, probe, req, hist>>


(***************************************************************************)
(* main.generate_animation: POST /generate.  Each action is the code up to *)
(* the next await.                                                         *)
(***************************************************************************)
UserKey == "x-gemini-api-key"
Keys == {None, Some(UserKey)}

\* the owner's jobs whose persisted status is not terminal
OpenJobs(user_id) ==
    { j \in DOMAIN jobs : jobs[j].userId = user_id /\ jobs[j].status \notin Terminal }

(***************************************************************************)
(* core/security.get_current_user: the request's user record is read once, *)
(* before the handler body runs                                            *)
(***************************************************************************)
GetCurrentUser(r, u, key) ==
    /\ req[r].pc = "idle"
    /\ \A q \in Slots : q < r => req[q].pc # "idle"
    /\ req' = [req EXCEPT ![r].pc = "count", ![r].user = u, ![r].key = key,
                          ![r].credits = users[u].credits]
    /\ UNCHANGED <<jobs, users, file, videoFile, s3, storageMode, job_store, probe, task, hist>>

(***************************************************************************)
(* main.generate_animation, lines 138-144: the concurrency check           *)
(***************************************************************************)
CheckConcurrencyCharged(r) ==
    /\ req[r].pc = "count"
    /\ users' = deduct_credit(req[r].user)
    /\ LET active_jobs == count_active_jobs(req[r].user) IN
       req' = [req EXCEPT
                 ![r].capReached =
                     Cardinality(OpenJobs(req[r].user)) >= MAX_CONCURRENT_JOBS,
                 ![r].pc = IF active_jobs >= MAX_CONCURRENT_JOBS
                           THEN "rejected_429" ELSE "enqueue"]
    /\ UNCHANGED <<jobs, file, videoFile, s3, storageMode, job_store, probe, task, hist>>

CheckConcurrency(r) ==
    /\ req[r].pc = "count"
    /\ LET active_jobs == count_active_jobs(req[r].user) IN
       req' = [req EXCEPT
                 ![r].capReached =
                     Cardinality(OpenJobs(req[r].user)) >= MAX_CONCURRENT_JOBS,
                 ![r].pc = IF active_jobs >= MAX_CONCURRENT_JOBS
                           THEN "rejected_429" ELSE "funding"]
    /\ UNCHANGED <<jobs, users, file, videoFile, s3, storageMode, job_store, probe, task, hist>>

(***************************************************************************)
(* main.generate_animation, lines 146-163: credits or personal key         *)
(***************************************************************************)
HasCreditsInclusive(current_user_credits) == current_user_credits >= 0

HasCredits(current_user_credits) == current_user_credits > 0

CheckFunding(r) ==
    /\ req[r].pc = "funding"
    /\ IF HasCredits(req[r].credits)
       THEN /\ users' = deduct_credit(req[r].user)
            /\ req' = [req EXCEPT ![r].pc = "enqueue", ![r].user_api_key = None,
                                  ![r].deducts = @ + 1, ![r].usage = @ + 1]
       ELSE IF req[r].key = None
       THEN /\ users' = users
            /\ req' = [req EXCEPT ![r].pc = "rejected_402"]
       ELSE /\ users' = increment_usage(req[r].user)
            /\ req' = [req EXCEPT ![r].pc = "enqueue",
                                  ![r].user_api_key = req[r].key,
                                  ![r].usage = @ + 1]
    /\ UNCHANGED <<jobs, file, videoFile, s3, storageMode, job_store, probe, task, hist>>

(***************************************************************************)
(* main.generate_animation, lines 169-173: apply_async.  The task id of    *)
(* request r is r.  ok: the broker accepts the message.                    *)
(***************************************************************************)
ApplyAsync(r, ok) ==
    /\ req[r].pc = "enqueue"
    /\ IF ok
       THEN /\ task' = [task EXCEPT ![r].pc = "queued", ![r].deliveries = 1,
                                    ![r].api_key = req[r].user_api_key]
            /\ req' = [req EXCEPT ![r].pc = "create"]
       ELSE /\ task' = task
            /\ req' = [req EXCEPT ![r].pc = "error_500"]
    /\ UNCHANGED <<jobs, users, file, videoFile, s3, storageMode, job_store, probe, hist>>

(***************************************************************************)
(* main.generate_animation, lines 175-191: create the PENDING record       *)
(***************************************************************************)
CreateJob(r, ok) ==
    /\ req[r].pc = "create"
    /\ IF ok
       THEN /\ jobs' = create_job(r, req[r].user)
            /\ req' = [req EXCEPT ![r].pc = "accepted"]
       ELSE /\ jobs' = jobs
            /\ req' = [req EXCEPT ![r].pc = "error_500"]
    /\ UNCHANGED <<users, file, videoFile, s3, storageMode, job_store, probe, task, hist>>


(***************************************************************************)
(* Spec: one accepted job (task id 1, owner u1, paid with a credit) and    *)
(* its worker, under every outcome of the AI call, the file write, the     *)
(* renderer, the upload and the disconnect, and under redelivery.          *)
(***************************************************************************)
Owner == "u1"

Init ==
    /\ jobs = (1 :> NewJob(1, Owner))
    /\ users = [u \in Users |-> [credits |-> InitCredits - 1, generationCount |-> 1]]
    /\ file = None
    /\ videoFile = None
    /\ s3 = [objects |-> {}, next |-> 1]
    /\ storageMode = "local"
    /\ job_store = NoStore
    /\ task = [j \in Jobs |-> IF j = 1
                 THEN [NoTask EXCEPT !.pc = "queued", !.deliveries = 1]
                 ELSE NoTask]
    /\ req = [r \in Slots |-> IF r = 1
                THEN [NoReq EXCEPT !.pc = "accepted", !.user = Owner,
                                   !.credits = InitCredits, !.deducts = 1,
                                   !.usage = 1]
                ELSE NoReq]
    /\ hist = [j \in Jobs |-> NoHist]
    /\ probe = NoProbe

Next ==
    \/ \E j \in Jobs : BeginRun(j)
    \/ \E j \in Jobs, o \in AiOutcomes, saveOk \in BOOLEAN : GenerateCode(j, o, saveOk)
    \/ \E j \in Jobs : SetRendering(j)
    \/ \E j \in Jobs, o \in RenderOutcomes : ExecuteManim(j, o)
    \/ \E j \in Jobs, uploadOk \in BOOLEAN : GetVideoUrl(j, uploadOk)
    \/ \E j \in Jobs : UpdateJobResult(j)
    \/ \E j \in Jobs : HandleRenderError(j)
    \/ \E j \in Jobs, o \in AiOutcomes, saveOk \in BOOLEAN : FixCode(j, o, saveOk)
    \/ \E j \in Jobs, ok \in BOOLEAN : Disconnect(j, ok)
    \/ \E j \in Jobs : HandleTaskError(j)
    \/ \E j \in Jobs : Redeliver(j)

Spec == Init /\ [][Next]_vars

(***************************************************************************)
(* SpecAdmit: the submit handler under concurrent requests of one owner,   *)
(* together with the workers of the accepted jobs.  The AI call returns    *)
(* clean code, the render succeeds or fails, each task is delivered once.  *)
(***************************************************************************)
\* one worker process: it executes one task at a time
WorkerFree(j) ==
    \A k \in Jobs \ {j} : task[k].pc \in {"none", "queued", "done"}

InitAdmit ==
    /\ jobs = <<>>
    /\ users = [u \in Users |-> [credits |-> InitCredits, generationCount |-> 0]]
    /\ file = None
    /\ videoFile = None
    /\ s3 = [objects |-> {}, next |-> 1]
    /\ storageMode = "local"
    /\ job_store = NoStore
    /\ task = [j \in Jobs |-> NoTask]
    /\ req = [r \in Slots |-> NoReq]
    /\ hist = [j \in Jobs |-> NoHist]
    /\ probe = NoProbe

NextAdmit ==
    \/ \E r \in Reqs, u \in Users, key \in Keys : GetCurrentUser(r, u, key)
    \/ \E r \in Reqs : CheckConcurrency(r)
    \/ \E r \in Reqs : CheckFunding(r)
    \/ \E r \in Reqs, ok \in BOOLEAN : ApplyAsync(r, ok)
    \/ \E r \in Reqs, ok \in BOOLEAN : CreateJob(r, ok)
    \/ \E j \in Jobs : WorkerFree(j) /\ BeginRun(j)
    \/ \E j \in Jobs, o \in AiGood : GenerateCode(j, o, TRUE)
    \/ \E j \in Jobs : SetRendering(j)
    \/ \E j \in Jobs, o \in RenderOkOrFail : ExecuteManim(j, o)
    \/ \E j \in Jobs : GetVideoUrl(j, TRUE)
    \/ \E j \in Jobs : UpdateJobResult(j)
    \/ \E j \in Jobs : HandleRenderError(j)
    \/ \E j \in Jobs, o \in AiGood : FixCode(j, o, TRUE)
    \/ \E j \in Jobs : Disconnect(j, TRUE)
    \/ \E j \in Jobs : HandleTaskError(j)

SpecAdmit == InitAdmit /\ [][NextAdmit]_vars


(***************************************************************************)
(* SpecCap: the owner has MAX_CONCURRENT_JOBS jobs accepted earlier (paid  *)
(* with credits, records PENDING, tasks queued) and submits once more      *)
(* while the workers process those jobs concurrently.                      *)
(***************************************************************************)
PriorJobs == 1..MAX_CONCURRENT_JOBS
NewReq == MAX_CONCURRENT_JOBS + 1

InitCap ==
    /\ jobs = [j \in PriorJobs |-> NewJob(j, Owner)]
    /\ users = [u \in Users |-> [credits |-> InitCredits,
                                 generationCount |-> MAX_CONCURRENT_JOBS]]
    /\ file = None
    /\ videoFile = None
    /\ s3 = [objects |-> {}, next |-> 1]
    /\ storageMode = "local"
    /\ job_store = NoStore
    /\ task = [j \in Jobs |-> IF j \in PriorJobs
                 THEN [NoTask EXCEPT !.pc = "queued", !.deliveries = 1]
                 ELSE NoTask]
    /\ req = [r \in Slots |-> IF r \in PriorJobs
                THEN [NoReq EXCEPT !.pc = "accepted", !.user = Owner,
                         !.credits = InitCredits + MAX_CONCURRENT_JOBS + 1 - r,
                         !.deducts = 1, !.usage = 1]
                ELSE NoReq]
    /\ hist = [j \in Jobs |-> NoHist]
    /\ probe = NoProbe

NextCap ==
    \/ \E u \in Users, key \in Keys : GetCurrentUser(NewReq, u, key)
    \/ CheckConcurrency(NewReq)
    \/ CheckFunding(NewReq)
    \/ \E ok \in BOOLEAN : ApplyAsync(NewReq, ok)
    \/ \E ok \in BOOLEAN : CreateJob(NewReq, ok)
    \/ \E j \in PriorJobs : BeginRun(j)
    \/ \E j \in PriorJobs, o \in AiGood : GenerateCode(j, o, TRUE)
    \/ \E j \in PriorJobs : SetRendering(j)
    \/ \E j \in PriorJobs, o \in RenderOkOrFail : ExecuteManim(j, o)
    \/ \E j \in PriorJobs : GetVideoUrl(j, TRUE)
    \/ \E j \in PriorJobs : UpdateJobResult(j)
    \/ \E j \in PriorJobs : HandleRenderError(j)
    \/ \E j \in PriorJobs, o \in AiGood : FixCode(j, o, TRUE)
    \/ \E j \in PriorJobs : Disconnect(j, TRUE)
    \/ \E j \in PriorJobs : HandleTaskError(j)

SpecCap == InitCap /\ [][NextCap]_vars


(***************************************************************************)
(* api/endpoints/jobs.delete_job with database_service.delete_job: the     *)
(* record is looked up by id and owner; when found, the artifact with its  *)
(* storage key is deleted from the store (a store error is logged, s3ok    *)
(* FALSE) and the record is deleted; otherwise the response is 404.  Only  *)
(* records written in s3 mode hold a storage key.                          *)
(***************************************************************************)
Callers == {"u1", "u2"}

find_first_any(job_id, user_id) == JobExists(job_id)

find_first(job_id, user_id) ==
    JobExists(job_id) /\ jobs[job_id].userId = user_id

DeleteJob(caller, j, s3ok) ==
    /\ hist[j].deletes < MaxDeletes
    /\ IF find_first(j, caller)
       THEN /\ s3' = IF jobs[j].s3Key # None /\ s3ok
                     THEN [s3 EXCEPT !.objects = @ \ {jobs[j].s3Key[1]}]
                     ELSE s3
            /\ jobs' = [k \in DOMAIN jobs \ {j} |-> jobs[k]]
            /\ hist' = [hist EXCEPT
                   ![j].deletes = @ + 1,
                   ![j].lastDelete = Some([caller |-> caller, status |-> 200,
                                           issued |-> jobs[j].s3Key]),
                   ![j].storeDeletes = @ \cup
                       (IF jobs[j].s3Key # None THEN {jobs[j].s3Key[1]} ELSE {})]
       ELSE /\ UNCHANGED <<s3, jobs>>
            /\ hist' = [hist EXCEPT
                   ![j].deletes = @ + 1,
                   ![j].lastDelete = Some([caller |-> caller, status |-> 404,
                                           issued |-> None])]
    /\ UNCHANGED <<users, file, videoFile, storageMode, job_store, probe, task, req>>

(***************************************************************************)
(* SpecDelete: the accepted job of Spec, delivered once, in local or s3    *)
(* storage mode, while its owner or another user sends delete requests.    *)
(***************************************************************************)
InitDelete ==
    /\ jobs = (1 :> NewJob(1, Owner))
    /\ users = [u \in Users |-> [credits |-> InitCredits - 1, generationCount |-> 1]]
    /\ file = None
    /\ videoFile = None
    /\ s3 = [objects |-> {}, next |-> 1]
    /\ storageMode \in {"local", "s3"}
    /\ job_store = NoStore
    /\ task = [j \in Jobs |-> IF j = 1
                 THEN [NoTask EXCEPT !.pc = "queued", !.deliveries = 1]
                 ELSE NoTask]
    /\ req = [r \in Slots |-> IF r = 1
                THEN [NoReq EXCEPT !.pc = "accepted", !.user = Owner,
                                   !.credits = InitCredits, !.deducts = 1,
                                   !.usage = 1]
                ELSE NoReq]
    /\ hist = [j \in Jobs |-> NoHist]
    /\ probe = NoProbe

NextDelete ==
    \/ \E j \in Jobs : BeginRun(j)
    \/ \E j \in Jobs, o \in AiOutcomes : GenerateCode(j, o, TRUE)
    \/ \E j \in Jobs : SetRendering(j)
    \/ \E j \in Jobs, o \in RenderOutcomes : ExecuteManim(j, o)
    \/ \E j \in Jobs, uploadOk \in BOOLEAN : GetVideoUrl(j, uploadOk)
    \/ \E j \in Jobs : UpdateJobResult(j)
    \/ \E j \in Jobs : HandleRenderError(j)
    \/ \E j \in Jobs, o \in AiOutcomes : FixCode(j, o, TRUE)
    \/ \E j \in Jobs : Disconnect(j, TRUE)
    \/ \E j \in Jobs : HandleTaskError(j)
    \/ \E caller \in Callers, s3ok \in BOOLEAN : DeleteJob(caller, 1, s3ok)

SpecDelete == InitDelete /\ [][NextDelete]_vars


(***************************************************************************)
(* Direct calls of the service functions.  A text is given as its lines;   *)
(* str.join puts them together.                                            *)
(***************************************************************************)
RECURSIVE JoinLines(_)
JoinLines(lines) ==
    IF lines = <<>> THEN <<>>
    ELSE IF Len(lines) = 1 THEN lines[1]
    ELSE lines[1] \o <<"\n">> \o JoinLines(Tail(lines))

SeqsUpTo(S, n) == UNION { [1..k -> S] : k \in 0..n }

\* Lines of renderer output: the text of the line, what kind of line it is
\* (structured: <Kind>Error: <message> or <Kind>Exception: <message>;
\* errorline: an Error token without message; pointer: a traceback pointer;
\* noise), and the line as it is to be shown, without control sequences.
ErrLine ==
    [text |-> <<"a", "E", "r", "r", "o", "r", ":", " ", "x">>,
     class |-> "structured",
     shown |-> <<"a", "E", "r", "r", "o", "r", ":", " ", "x">>]
ExcLine ==
    [text |-> <<"K", "E", "x", "c", "e", "p", "t", "i", "o", "n", ":", " ", "y">>,
     class |-> "structured",
     shown |-> <<"K", "E", "x", "c", "e", "p", "t", "i", "o", "n", ":", " ", "y">>]
ColourLine ==
    [text |-> <<ESC, "[", "1", "m", "c", "E", "r", "r", "o", "r", ":", " ", "z", ESC, "[", "0", "m">>,
     class |-> "structured",
     shown |-> <<"c", "E", "r", "r", "o", "r", ":", " ", "z">>]
BareLine ==
    [text |-> <<"b", "E", "r", "r", "o", "r", ":">>,
     class |-> "errorline",
     shown |-> <<"b", "E", "r", "r", "o", "r", ":">>]
PtrLine ==
    [text |-> <<PTR, " ", "3", " ", BAR, " ", BAR, " ", "c">>,
     class |-> "pointer",
     shown |-> <<"E", "r", "r", "o", "r", " ", "n", "e", "a", "r", " ", "l", "i", "n", "e", " ", "3", ":", " ", "c">>]
NoiseLine ==
    [text |-> <<"o", "k">>, class |-> "noise", shown |-> <<"o", "k">>]

StderrLines == {ErrLine, ExcLine, ColourLine, BareLine, PtrLine, NoiseLine}

\* the outputs of at most MaxLines lines, and each line followed by five
\* lines of noise
StderrInputs ==
    SeqsUpTo(StderrLines, MaxLines) \cup
    { <<l>> \o [i \in 1..5 |-> NoiseLine] : l \in StderrLines }

StderrText(ls) == JoinLines([i \in 1..Len(ls) |-> ls[i].text])

\* Lines of an AI response
ResponseLines ==
    {<<"h", "i">>, <<"d", "e", "f", " ", "g">>, <<"i", "m", "p", "o", "r", "t", " ", "m">>,
     <<"f", "r", "o", "m", " ", "a">>, <<"c", "l", "a", "s", "s", " ", "C">>,
     <<" ", "x">>, FencePython, Fence}

ResponseInputs == SeqsUpTo(ResponseLines, MaxLines)

CallExtractErrorDetailsStateful ==
    /\ probe.kind = "extract_error_details"
    /\ probe' = [probe EXCEPT
           !.result = Some(IF \E j \in DOMAIN jobs : jobs[j].status = completed
                           THEN extract_error_details(StderrText(probe.args))
                           ELSE UnknownError),
           !.prev = probe.result]
    /\ UNCHANGED <<jobs, users, file, videoFile, s3, storageMode, job_store, task, req, hist>>

\* tasks.py line 89: extract_error_details(render_error.stderr), on the
\* text the probe holds; the result of the call before is kept in prev
CallExtractErrorDetails ==
    /\ probe.kind = "extract_error_details"
    /\ probe' = [probe EXCEPT
           !.result = Some(extract_error_details(StderrText(probe.args))),
           !.prev = probe.result]
    /\ UNCHANGED <<jobs, users, file, videoFile, s3, storageMode, job_store, task, req, hist>>

\* ai_service.py: _clean_code_response(response.text)
CallCleanCodeResponse ==
    /\ probe.kind = "_clean_code_response"
    /\ probe' = [probe EXCEPT
           !.result = Some(_clean_code_response(probe.args)),
           !.prev = probe.result]
    /\ UNCHANGED <<jobs, users, file, videoFile, s3, storageMode, job_store, task, req, hist>>

\* arguments of the result and error writes
ResultArgs ==
    {[video_url |-> [store |-> "s3", key |-> k, video |-> [job |-> 1, code |-> RespPlain]],
      execution_log |-> ExecutionLog(k), generated_code |-> Some(RespPlain),
      s3_key |-> Some(k)] : k \in 1..2}

ErrorArgs ==
    {[error_message |-> <<"Rendering failed: ", "x">>],
     [error_message |-> <<"Unexpected error: ", "y">>]}

\* the call is the one made last on job j
SameCall(j, op, a) ==
    /\ hist[j].lastUpdate # None
    /\ hist[j].lastUpdate[1].op = op
    /\ hist[j].lastUpdate[1].args = a

\* database_service.update_job_result called with arguments a
CallUpdateJobResult(j, a) ==
    /\ JobExists(j)
    /\ jobs' = update_job_result(j, a.video_url, a.execution_log,
                                 a.generated_code, a.s3_key)
    /\ hist' = [hist EXCEPT
           ![j].lastUpdate = Some([op |-> "update_job_result", args |-> a]),
           ![j].repeated = SameCall(j, "update_job_result", a)]
    /\ UNCHANGED <<users, file, videoFile, s3, storageMode, job_store, probe, task, req>>

\* database_service.update_job_error called with arguments a
CallUpdateJobError(j, a) ==
    /\ JobExists(j)
    /\ jobs' = update_job_error(j, a.error_message)
    /\ hist' = [hist EXCEPT
           ![j].lastUpdate = Some([op |-> "update_job_error", args |-> a]),
           ![j].repeated = SameCall(j, "update_job_error", a)]
    /\ UNCHANGED <<users, file, videoFile, s3, storageMode, job_store, probe, task, req>>

(***************************************************************************)
(* SpecCalls: the service functions called directly, in any order, on a    *)
(* job table with one record and a store with one artifact.  The text the  *)
(* classifier or the cleaner is called on is drawn in the initial state.   *)
(***************************************************************************)
InitCalls ==
    /\ jobs = (1 :> NewJob(1, Owner))
    /\ users = [u \in Users |-> [credits |-> InitCredits - 1, generationCount |-> 1]]
    /\ file = None
    /\ videoFile = None
    /\ s3 = [objects |-> {1}, next |-> 2]
    /\ storageMode = "s3"
    /\ job_store = NoStore
    /\ task = [j \in Jobs |-> NoTask]
    /\ req = [r \in Slots |-> NoReq]
    /\ hist = [j \in Jobs |-> NoHist]
    /\ \/ \E ls \in StderrInputs :
             probe = [kind |-> "extract_error_details", args |-> ls,
                      result |-> None, prev |-> None]
       \/ \E ls \in ResponseInputs :
             probe = [kind |-> "_clean_code_response", args |-> JoinLines(ls),
                      result |-> None, prev |-> None]

NextCalls ==
    \/ CallExtractErrorDetails
    \/ CallCleanCodeResponse
    \/ \E a \in ResultArgs : CallUpdateJobResult(1, a)
    \/ \E a \in ErrorArgs : CallUpdateJobError(1, a)

SpecCalls == InitCalls /\ [][NextCalls]_vars


(***************************************************************************)
(* job_store.JobStore: an ordered dictionary of jobs, oldest first.  The   *)
(* uuid of the n-th created job is n.                                      *)
(***************************************************************************)
JobStatus == {"pending", "generating_code", "rendering", "completed", "failed"}

\* models/job.py: the job create_job builds; updated: updated_at # created_at
Job(job_id) == [job_id |-> job_id, status |-> "pending", updated |-> FALSE]

popitem_newest(d) == SubSeq(d, 1, Len(d) - 1)

\* OrderedDict.popitem(last=False)
popitem(d) == Tail(d)

\* JobStore.create_job
StoreCreateJob ==
    /\ job_store.created < MaxCreates
    /\ LET job == Job(job_store.created + 1)
           inserted == Append(job_store._jobs, job)
       IN job_store' = [job_store EXCEPT
              !._jobs = IF Len(inserted) > job_store._max_jobs
                        THEN popitem(inserted) ELSE inserted,
              !.created = @ + 1,
              !.listed = None]
    /\ UNCHANGED <<jobs, users, file, videoFile, s3, storageMode, task, req, hist, probe>>

\* JobStore.update_job(job_id, status=status)
StoreUpdateJob(job_id, status) ==
    /\ job_store' =
          [job_store EXCEPT
              !._jobs = [i \in 1..Len(@) |->
                           IF @[i].job_id = job_id
                           THEN [@[i] EXCEPT !.status = status, !.updated = TRUE]
                           ELSE @[i]],
              !.listed = None]
    /\ UNCHANGED <<jobs, users, file, videoFile, s3, storageMode, task, req, hist, probe>>

\* s[start:] of Python
SliceFrom(s, start) ==
    LET n == Len(s)
        b == IF start < 0
             THEN (IF n + start < 0 THEN 0 ELSE n + start)
             ELSE (IF start > n THEN n ELSE start)
    IN SubSeq(s, b + 1, n)

\* s[::-1]
Reversed(s) == [i \in 1..Len(s) |-> s[Len(s) + 1 - i]]

\* JobStore.list_jobs
list_jobs(limit) == Reversed(SliceFrom(job_store._jobs, 0 - limit))

StoreListJobs(limit) ==
    /\ job_store' = [job_store EXCEPT
          !.listed = Some([limit |-> limit, result |-> list_jobs(limit)])]
    /\ UNCHANGED <<jobs, users, file, videoFile, s3, storageMode, task, req, hist, probe>>

(***************************************************************************)
(* SpecStore: a store built with max_jobs in 0..MaxJobs, and any sequence  *)
(* of its calls.                                                           *)
(***************************************************************************)
InitStore ==
    /\ jobs = (1 :> NewJob(1, Owner))
    /\ users = [u \in Users |-> [credits |-> InitCredits - 1, generationCount |-> 1]]
    /\ file = None
    /\ videoFile = None
    /\ s3 = [objects |-> {}, next |-> 1]
    /\ storageMode = "local"
    /\ task = [j \in Jobs |-> NoTask]
    /\ req = [r \in Slots |-> NoReq]
    /\ hist = [j \in Jobs |-> NoHist]
    /\ probe = NoProbe
    /\ \E max_jobs \in 0..MaxJobs :
          job_store = [NoStore EXCEPT !._max_jobs = max_jobs]

NextStore ==
    \/ StoreCreateJob
    \/ \E job_id \in 1..MaxCreates, status \in JobStatus :
          StoreUpdateJob(job_id, status)
    \/ \E limit \in 0..MaxLimit : StoreListJobs(limit)

SpecStore == InitStore /\ [][NextStore]_vars


(***************************************************************************)
(* main.generate_animation, line 171: the task is queued with a hard time  *)
(* limit.  When it expires the queue runtime kills the worker process that *)
(* executes the task, wherever the task is; the task is recorded as failed *)
(* in the result backend and no code of the task runs any more.            *)
(***************************************************************************)
Running ==
    {"generate", "set_rendering", "render", "get_video", "update_result",
     "render_failed", "fix", "finally", "handler"}

HardTimeLimit(j) ==
    /\ task[j].pc \in Running
    /\ task' = [task EXCEPT ![j].pc = "done", ![j].result = "FAILURE"]
    /\ UNCHANGED <<jobs, users, file, videoFile, s3, storageMode, job_store, probe, req, hist>>

(***************************************************************************)
(* SpecLive: the accepted job of Spec, delivered once.  Every call of the  *)
(* worker returns, fails or times out, so the worker always takes its next *)
(* step (weak fairness); the hard time limit may expire at any point.      *)
(***************************************************************************)
WorkerStep ==
    \/ \E j \in Jobs : BeginRun(j)
    \/ \E j \in Jobs, o \in AiOutcomes, saveOk \in BOOLEAN : GenerateCode(j, o, saveOk)
    \/ \E j \in Jobs : SetRendering(j)
    \/ \E j \in Jobs, o \in RenderOutcomes : ExecuteManim(j, o)
    \/ \E j \in Jobs, uploadOk \in BOOLEAN : GetVideoUrl(j, uploadOk)
    \/ \E j \in Jobs : UpdateJobResult(j)
    \/ \E j \in Jobs : HandleRenderError(j)
    \/ \E j \in Jobs, o \in AiOutcomes, saveOk \in BOOLEAN : FixCode(j, o, saveOk)
    \/ \E j \in Jobs, ok \in BOOLEAN : Disconnect(j, ok)
    \/ \E j \in Jobs : HandleTaskError(j)

NextLive ==
    \/ WorkerStep
    \/ \E j \in Jobs : HardTimeLimit(j)

SpecLive == Init /\ [][NextLive]_vars /\ WF_vars(WorkerStep)


(***************************************************************************)
(*                              PROPERTIES                                 *)
(***************************************************************************)

\* C1: in one run of process_job_async execute_manim is invoked at most
\* MAX_RETRY_ATTEMPTS times and fix_code at most MAX_RETRY_ATTEMPTS - 1
\* times, whatever the outcomes of the calls.
C1_AttemptBudget ==
    \A j \in Jobs : /\ hist[j].renders <= MAX_RETRY_ATTEMPTS
                    /\ hist[j].fixes <= MAX_RETRY_ATTEMPTS - 1

C1_Witness ==
    \E j \in Jobs : /\ hist[j].renders = MAX_RETRY_ATTEMPTS
                    /\ hist[j].fixes = MAX_RETRY_ATTEMPTS - 1
                    /\ task[j].pc = "done"

\* C2: after a render call of a run ended by timeout, no further render call
\* and no fix call is made in that run.
C2_NoCallAfterTimeout ==
    \A j \in Jobs : hist[j].afterTimeout = 0

\* the text contains a deny-listed substring, case-insensitively
HasDenyListed(text) ==
    \E k \in 1..Len(dangerous_patterns) :
        Contains(Lower(text), Lower(dangerous_patterns[k]))

\* C3: the working file handed to the renderer, and the code a run holds,
\* never contain a deny-listed substring (case-insensitive), also after a
\* fix was rejected with SecurityViolationError.
C3_OnlySanitizedCode ==
    /\ file # None => ~HasDenyListed(file[1])
    /\ \A j \in Jobs : task[j].code # None => ~HasDenyListed(task[j].code[1])

C3_Witness ==
    \E j \in Jobs : /\ hist[j].rejected
                    /\ hist[j].fixes >= 1
                    /\ hist[j].renders >= 2
                    /\ task[j].pc = "get_video"
                    /\ file # None

\* C4: once the persisted status of a job is completed or failed, no later
\* write changes it.
C4_TerminalAbsorbing ==
    [][\A j \in DOMAIN jobs :
          (jobs[j].status \in Terminal /\ j \in DOMAIN jobs')
             => jobs'[j].status = jobs[j].status]_vars

\* C5: update_job_result and update_job_error are never both applied to
\* the same job.
C5_OneTerminalOutcome ==
    \A j \in Jobs : ~(hist[j].resultApplied /\ hist[j].errorApplied)

\* C6: a submission that finds MAX_CONCURRENT_JOBS or more jobs of its owner
\* in a non-terminal persisted status is rejected with 429.
C6_CapCountsEveryOpenJob ==
    \A r \in Slots : req[r].capReached => req[r].pc = "rejected_429"

\* C7: a submission rejected for concurrency has written nothing to the
\* credit ledger, created no job record and enqueued no task.
C7_RejectedBeforeLedger ==
    \A r \in Slots : req[r].pc = "rejected_429" =>
        /\ req[r].deducts = 0 /\ req[r].usage = 0
        /\ users[req[r].user].credits = InitCredits
        /\ users[req[r].user].generationCount = MAX_CONCURRENT_JOBS
        /\ ~JobExists(r)
        /\ task[r].pc = "none"

C7_Witness ==
    \E r \in Slots : req[r].pc = "rejected_429" /\ HasCredits(req[r].credits)

\* C8: of the concurrent requests of an owner without personal key, no more
\* than the balance allows take a credit, and the balance never goes
\* below 0.
C8_AtomicCreditDecrement ==
    /\ \A u \in Users : users[u].credits >= 0
    /\ Cardinality({r \in Slots : req[r].deducts > 0 /\ req[r].key = None})
          <= InitCredits

Sum(f, S) ==
    LET RECURSIVE Acc(_)
        Acc(T) == IF T = {} THEN 0
                  ELSE LET x == CHOOSE y \in T : TRUE IN f[x] + Acc(T \ {x})
    IN Acc(S)

\* C9: a submission that read balance 0 and carries no personal key ends
\* rejected (402, or 429 before that) and has no effect: no ledger write,
\* no job record, no task.
C9_PaymentRequiredNoEffect ==
    \A r \in Slots :
        (req[r].pc # "idle" /\ req[r].credits = 0 /\ req[r].key = None) =>
            /\ req[r].pc \in {"count", "funding", "rejected_429", "rejected_402"}
            /\ req[r].deducts = 0 /\ req[r].usage = 0
            /\ ~JobExists(r)
            /\ task[r].pc = "none"

C9_Witness ==
    \E r \in Slots : /\ req[r].pc = "rejected_402"
                     /\ req[r].credits = 0 /\ req[r].key = None

\* C10: an accepted submission that read a balance > 0 deducted exactly one
\* credit and its job runs on the platform key; one that read balance 0 and
\* carries a personal key left the credits alone, incremented the usage
\* count once and its job runs on that key.  The ledger holds exactly the
\* sum of these writes.
C10_FundingRule ==
    /\ \A r \in Slots : req[r].pc = "accepted" =>
         /\ req[r].credits > 0 =>
              /\ req[r].deducts = 1 /\ req[r].usage = 1
              /\ task[r].api_key = None
              /\ hist[r].creds \subseteq {PlatformKey}
         /\ (req[r].credits = 0 /\ req[r].key # None) =>
              /\ req[r].deducts = 0 /\ req[r].usage = 1
              /\ task[r].api_key = req[r].key
              /\ hist[r].creds \subseteq {req[r].key[1]}
    /\ \A u \in Users :
         /\ users[u].credits =
              InitCredits - Sum([r \in Slots |-> req[r].deducts], Slots)
         /\ users[u].generationCount =
              Sum([r \in Slots |-> req[r].usage], Slots)

C10_Witness ==
    /\ \E r \in Slots : /\ req[r].pc = "accepted" /\ req[r].credits > 0
                        /\ hist[r].creds = {PlatformKey}
    /\ \E r \in Slots : /\ req[r].pc = "accepted" /\ req[r].credits = 0
                        /\ req[r].key # None
                        /\ hist[r].creds = {UserKey}

\* C11: an accepted submission that carries a personal key has deducted no
\* credit and has incremented the usage count once, whatever balance it read.
C11_KeyedNoDecrement ==
    \A r \in Slots : (req[r].pc = "accepted" /\ req[r].key # None) =>
        req[r].deducts = 0 /\ req[r].usage = 1

\* C12: when the initial generate_code call of a run failed, the run made no
\* render call and no fix call and is on its way out; once it has ended the
\* job is persisted as failed with a non-empty error message.
C12_GenerateFailureIsTerminal ==
    \A j \in Jobs : hist[j].genFailed =>
        /\ hist[j].renders = 0 /\ hist[j].fixes = 0
        /\ task[j].pc \in {"finally", "handler", "done", "queued"}
        /\ task[j].pc \in {"done", "queued"} =>
             /\ JobExists(j)
             /\ jobs[j].status = failed
             /\ jobs[j].errorMessage # None
             /\ jobs[j].errorMessage[1] # <<>>

C12_Witness ==
    \E j \in Jobs : /\ hist[j].genFailed /\ hist[j].rejected
                    /\ task[j].pc = "done"
                    /\ jobs[j].status = failed

\* C13: right after a fix call that follows a render failed with non-zero
\* exit on attempt k, the error summary the call received is
\* extract_error_details of the stderr of that render, the failed code it
\* received is the code that was rendered, and its attempt number is k + 1.
C13_FixReceivesClassifiedStderr ==
    \A j \in Jobs :
        (/\ task[j].pc = "set_rendering"
         /\ hist[j].fixCall # None
         /\ hist[j].lastRender # None
         /\ hist[j].lastRender[1].kind = "fail") =>
            /\ hist[j].fixCall[1].error_message =
                  extract_error_details(hist[j].lastRender[1].stderr)
            /\ hist[j].fixCall[1].failed_code = hist[j].lastRender[1].code
            /\ hist[j].fixCall[1].attempt = hist[j].lastRender[1].attempt + 1

\* C14: when all MAX_RETRY_ATTEMPTS renders of a run failed with non-zero
\* exit and the run ended with that RenderError, the job is failed and the
\* persisted error message is extract_error_details of the last stderr.
C14_StoredErrorIsLastSummary ==
    \A j \in Jobs :
        (/\ task[j].pc = "done"
         /\ task[j].err.type = "RenderError"
         /\ hist[j].renders = MAX_RETRY_ATTEMPTS
         /\ hist[j].lastRender # None
         /\ hist[j].lastRender[1].kind = "fail"
         /\ hist[j].lastRender[1].attempt = MAX_RETRY_ATTEMPTS) =>
            /\ jobs[j].status = failed
            /\ jobs[j].errorMessage =
                  Some(extract_error_details(hist[j].lastRender[1].stderr))

\* C15: a fix step that failed (fix_code or save_code raised) on attempt k
\* does not end the run: the next position is the rendering status write of
\* attempt k + 1, the working file is left as it was rendered on attempt k,
\* and the next render call renders that same code.
C15_FailedFixRetriesSameCode ==
    [][\A j \in Jobs :
         /\ (/\ task[j].pc = "fix" /\ task'[j].pc # "fix"
             /\ hist'[j].fixCall # None /\ hist'[j].fixCall[1].failed) =>
               /\ task'[j].pc = "set_rendering"
               /\ task'[j].attempt = task[j].attempt + 1
               /\ file' = file
               /\ file = Some(hist[j].lastRender[1].code)
         /\ (/\ task[j].pc = "render"
             /\ hist[j].fixCall # None /\ hist[j].fixCall[1].failed
             /\ hist'[j].renders = hist[j].renders + 1) =>
               hist'[j].lastRender[1].code = hist[j].lastRender[1].code]_vars

C15_Witness ==
    \E j \in Jobs : /\ hist[j].fixCall # None /\ hist[j].fixCall[1].failed
                    /\ hist[j].rejected
                    /\ hist[j].lastRender[1].attempt = hist[j].fixCall[1].attempt
                    /\ hist[j].renders = hist[j].fixCall[1].attempt

\* C16: while a run is at its generate call the persisted status is
\* generating_code, at its render call the rendering status of the attempt,
\* at its fix call the fixing status of the attempt; no call is in progress
\* while the persisted status is completed or failed.
C16_StatusPersistedBeforeWork ==
    \A j \in Jobs :
        task[j].pc \in {"generate", "render", "get_video", "fix"} =>
            /\ JobExists(j)
            /\ jobs[j].status \notin Terminal
            /\ task[j].pc = "generate" =>
                 jobs[j].status = Plain("generating_code")
            /\ task[j].pc \in {"render", "get_video"} =>
                 jobs[j].status = RenderingStatus(task[j].attempt)
            /\ task[j].pc = "fix" =>
                 jobs[j].status = FixingStatus(task[j].attempt)

C16_Witness ==
    \E j \in Jobs : /\ task[j].pc = "fix" /\ task[j].attempt = 2
                    /\ task[j].deliveries = 2
                    /\ hist[j].errorApplied

\* C17: the job record exists whenever the worker performs the first status
\* write of a run.
C17_RecordExistsAtFirstWrite ==
    \A j \in Jobs : ~hist[j].firstWriteMissed

\* C19: with several jobs in progress, the code a render call executed is
\* the code its own job holds, and the artifact recorded for a completed job
\* was rendered by that job from its recorded code.
C19_OwnCodeOwnArtifact ==
    /\ \A j \in Jobs :
         (task[j].pc \in {"get_video", "render_failed"}
            /\ hist[j].lastRender # None /\ task[j].code # None) =>
              hist[j].lastRender[1].code = task[j].code[1]
    /\ \A j \in DOMAIN jobs :
         (hist[j].resultApplied /\ jobs[j].videoUrl # None) =>
              /\ jobs[j].videoUrl[1].video.job = j
              /\ Some(jobs[j].videoUrl[1].video.code) = jobs[j].generatedCode

\* C20: the calls of a run are ordered: the generate call has returned code
\* before any render call, and the render call of attempt k is made after
\* exactly k - 1 render calls and k - 1 fix calls; the fix call after
\* attempt k is made after exactly k render calls and k - 1 fix calls.
C20_CallsOrdered ==
    \A j \in Jobs :
        /\ task[j].pc = "generate" =>
             /\ task[j].code = None
             /\ hist[j].renders = 0 /\ hist[j].fixes = 0
        /\ task[j].pc \in {"set_rendering", "render"} =>
             /\ task[j].code # None
             /\ task[j].attempt \in 1..MAX_RETRY_ATTEMPTS
             /\ hist[j].renders = task[j].attempt - 1
             /\ hist[j].fixes = task[j].attempt - 1
        /\ task[j].pc = "fix" =>
             /\ hist[j].renders = task[j].attempt
             /\ hist[j].fixes = task[j].attempt - 1

C20_Witness ==
    \E j \in Jobs : /\ task[j].pc = "render"
                    /\ task[j].attempt = MAX_RETRY_ATTEMPTS
                    /\ hist[j].fixes = MAX_RETRY_ATTEMPTS - 1

\* C18: every accepted job eventually has a terminal persisted status
\* (completed or failed), also when the hard time limit ends its task.
C18_EventuallyTerminal ==
    \A j \in Jobs :
        (req[j].pc = "accepted") ~> (JobExists(j) /\ jobs[j].status \in Terminal)

\* C21: once a persistence write of a run failed because the job record is
\* gone, the run makes no further generate, render or fix call, the record
\* stays absent, and the run ends as a failed task.
C21_DeletedRecordStopsRun ==
    \A j \in Jobs : hist[j].writeFailed =>
        /\ task[j].pc \in {"finally", "handler", "done"}
        /\ ~JobExists(j)
        /\ task[j].pc = "done" => task[j].result = "FAILURE"

C21_Witness ==
    \E j \in Jobs : /\ hist[j].writeFailed
                    /\ task[j].pc = "done"
                    /\ hist[j].renders >= 1
                    /\ hist[j].lastDelete # None
                    /\ hist[j].lastDelete[1].status = 200

\* C30: a delete request finds the job only if the caller owns it.  By any
\* other caller the response is 404 and the job table and the artifact
\* store are unchanged; by the owner the response is 200, the record is
\* removed, the deletion is issued for the record's storage key, and no
\* other record changes.
C30_DeleteOnlyOwnJob ==
    [][\A j \in Jobs :
         hist'[j].deletes = hist[j].deletes + 1 =>
           LET d == hist'[j].lastDelete[1] IN
           IF JobExists(j) /\ jobs[j].userId = d.caller
           THEN /\ d.status = 200
                /\ j \notin DOMAIN jobs'
                /\ d.issued = jobs[j].s3Key
                /\ \A k \in DOMAIN jobs \ {j} :
                      k \in DOMAIN jobs' /\ jobs'[k] = jobs[k]
                /\ s3'.objects \subseteq s3.objects
                /\ s3.objects \ s3'.objects \subseteq
                      {jobs[j].s3Key[i] : i \in 1..Len(jobs[j].s3Key)}
           ELSE /\ d.status = 404
                /\ jobs' = jobs
                /\ s3' = s3
                /\ videoFile' = videoFile]_vars

C30_Witness ==
    \E j \in Jobs :
        /\ hist[j].deletes = 2
        /\ hist[j].lastDelete[1].status = 200
        /\ hist[j].lastDelete[1].caller = Owner
        /\ hist[j].lastDelete[1].issued # None
        /\ hist[j].lastDelete[1].issued[1] \notin s3.objects

\* C22: a job whose persisted status is completed has an artifact
\* reference, an execution log and generated code, and its run is past its
\* last generate, render and fix call.
C22_CompletedIsComplete ==
    \A j \in DOMAIN jobs : jobs[j].status = completed =>
        /\ jobs[j].videoUrl # None
        /\ jobs[j].executionLog # None
        /\ jobs[j].generatedCode # None
        /\ task[j].pc \in {"finally", "handler", "done", "queued"}

C22_Witness ==
    \E j \in DOMAIN jobs : /\ jobs[j].status = completed
                           /\ hist[j].fixes >= 1
                           /\ task[j].pc = "done"

\* C27: a render call that exited zero without writing an output file never
\* leads to the result write of its attempt.
C27_MissingArtifactNeverCompletes ==
    \A j \in Jobs :
        (/\ hist[j].lastRender # None
         /\ hist[j].lastRender[1].kind = "ok_nofile"
         /\ hist[j].lastRender[1].attempt = task[j].attempt) =>
            task[j].pc # "update_result"

\* C28: the execution log of a completed job carries the note
\* "Successfully rendered after k attempts." exactly when the run made more
\* than one render call, and then k is the number of render calls of the run.
C28_LogNotesAttempts ==
    \A j \in DOMAIN jobs : jobs[j].status = completed =>
        jobs[j].executionLog[1].after =
            IF hist[j].renders > 1 THEN Some(hist[j].renders) ELSE None

C28_Witness ==
    \E j \in DOMAIN jobs : /\ jobs[j].status = completed
                           /\ hist[j].renders = MAX_RETRY_ATTEMPTS
                           /\ jobs[j].executionLog[1].after =
                                 Some(MAX_RETRY_ATTEMPTS)

\* C23: applying update_job_result, or update_job_error, a second time with
\* the arguments of the application before leaves the job records as the
\* first application left them and does nothing to the artifact store.
C23_RepeatedWriteChangesNothing ==
    [][\A j \in Jobs :
          (/\ hist[j].lastUpdate # None
           /\ hist'[j].lastUpdate = hist[j].lastUpdate
           /\ hist'[j].repeated) =>
              (jobs' = jobs /\ s3' = s3)]_vars

C23_Witness ==
    \E j \in DOMAIN jobs : /\ hist[j].repeated
                           /\ hist[j].lastUpdate[1].op = "update_job_error"
                           /\ jobs[j].s3Key # None
                           /\ jobs[j].s3Key[1] \in s3.objects

\* the positions of the lines of a given kind
LinesOf(ls, class) == { i \in 1..Len(ls) : ls[i].class = class }

\* the positions of the last five lines
LastFive(ls) == { i \in 1..Len(ls) : i > Len(ls) - 5 }

First(S) == CHOOSE i \in S : \A k \in S : i <= k
Last(S) == CHOOSE i \in S : \A k \in S : k <= i

\* C24: when the text holds lines of the form <Kind>Error: <message> or
\* <Kind>Exception: <message>, the summary is the last of them, as written
\* (kind name and message), without the control sequences.
C24_LastStructuredVerbatim ==
    (/\ probe.kind = "extract_error_details"
     /\ probe.result # None
     /\ LinesOf(probe.args, "structured") # {}) =>
        probe.result[1] = probe.args[Last(LinesOf(probe.args, "structured"))].shown

\* C25: the rules apply in priority order.  The summary of the empty text is
\* the sentinel; an "Error near line" summary is given only when the text has
\* no structured error and no error line among its last five lines, and is
\* given then for a text with a pointer line; a "Runtime Error:" summary is
\* given only when, besides, the text has no pointer line.
C25_PriorityOrder ==
    (probe.kind = "extract_error_details" /\ probe.result # None) =>
        LET ls == probe.args
            r == probe.result[1]
            structured == LinesOf(ls, "structured") # {}
            errorline == LinesOf(ls, "errorline") \cap LastFive(ls) # {}
            pointer == LinesOf(ls, "pointer") # {}
        IN  /\ ls = <<>> => r = UnknownError
            /\ StartsWith(r, ErrorNearLine) => ~structured /\ ~errorline
            /\ (~structured /\ ~errorline /\ pointer) =>
                   r = ls[First(LinesOf(ls, "pointer"))].shown
            /\ StartsWith(r, RuntimeErrorPrefix) =>
                   ~structured /\ ~errorline /\ ~pointer

C25_Witness ==
    /\ probe.kind = "extract_error_details"
    /\ probe.result = Some(PtrLine.shown)
    /\ probe.args[1] = NoiseLine
    /\ Len(probe.args) = 2

Declarations(lines) ==
    { i \in 1..Len(lines) :
        \E prefix \in {PrefixFrom, PrefixImport, PrefixClass, PrefixDef} :
            StartsWith(lines[i], prefix) }

C31_StoreKeepsMostRecent ==
    LET n == Len(job_store._jobs)
    IN  /\ n <= job_store._max_jobs
        /\ n = IF job_store.created < job_store._max_jobs
               THEN job_store.created ELSE job_store._max_jobs
        /\ \A i \in 1..n :
              /\ job_store._jobs[i].job_id = job_store.created - n + i
              /\ ~job_store._jobs[i].updated =>
                     job_store._jobs[i].status = "pending"

C31_Witness ==
    /\ job_store._max_jobs >= 1
    /\ job_store.created > job_store._max_jobs
    /\ Len(job_store._jobs) = job_store._max_jobs
    /\ ~job_store._jobs[Len(job_store._jobs)].updated

\* C32: list_jobs(limit) returns at most limit jobs: the limit most recently
\* created ones (all of them when the store holds fewer), newest first.
C32_ListIsNewestUpToLimit ==
    job_store.listed # None =>
        LET limit == job_store.listed[1].limit
            result == job_store.listed[1].result
            n == Len(job_store._jobs)
        IN  /\ Len(result) = IF limit < n THEN limit ELSE n
            /\ \A i \in 1..Len(result) : result[i] = job_store._jobs[n + 1 - i]

\* C33: the generated code stored with a completed job is the text that was
\* in the working file when the render of the successful attempt ran.
C33_StoredCodeIsRenderedCode ==
    \A j \in DOMAIN jobs :
        (jobs[j].status = completed /\ hist[j].lastRender # None) =>
            jobs[j].generatedCode = Some(hist[j].lastRender[1].code)

\* C34: a submit request that ended with an error from enqueueing the task
\* or creating the record has left the owner's ledger as it found it: it
\* made no credit decrement and no usage increment.
C34_NoChargeWithoutJob ==
    \A r \in Slots :
        req[r].pc = "error_500" => (req[r].deducts = 0 /\ req[r].usage = 0)

\* C35: an owner never has more than MAX_CONCURRENT_JOBS jobs whose
\* persisted status is not terminal.
C35_OpenJobsWithinCap ==
    \A u \in Users : Cardinality(OpenJobs(u)) <= MAX_CONCURRENT_JOBS

\* C36: when no run is in progress, every artifact in the store is the one
\* named by the storage key of an existing job record, unless the deletion
\* of its job asked the store to delete it.
C36_ArtifactsReferenced ==
    (\A j \in Jobs : task[j].pc \notin Running \cup {"queued"}) =>
        \A k \in s3.objects :
            \/ \E j \in DOMAIN jobs : jobs[j].s3Key = Some(k)
            \/ \E j \in Jobs : k \in hist[j].storeDeletes

=============================================================================
